---- MODULE Spec2Model ----
(***************************************************************************)
(* A model of the BIDS streaming core of rt-cloud: BidsIncremental,        *)
(* BidsRun and BidsArchive (src/rtCommon).                                 *)
(*                                                                         *)
(* A metadata dictionary is a function whose DOMAIN is the set of keys it  *)
(* holds.  A NIfTI image is a record of its header (the fields that the    *)
(* append checks read) and its volumes, one voxel value per 3-D volume.    *)
(* The names dim and pixdim keep the 0-based indices of the code through   *)
(* the accessors Dim and Pixdim.                                           *)
(***************************************************************************)
EXTENDS Integers, Sequences, FiniteSets, TLC

\* ---------------------------------------------------------------- bounds
\* Voxel values that identify the volumes of the input images.
MaxVoxel == 2
\* Number of appendIncremental calls in one behaviour of the archive.
MaxAppends == 2

\* Number of appendIncremental calls in one behaviour with queries.
MaxQueryAppends == 1

\* Largest sliceIndex handed to getIncremental.
MaxSlice == 2

\* Calls of appendIncremental on the failing filesystem.
MaxFaultAppends == 1

\* Calls of appendIncremental on one BidsRun.
MaxRunAppends == 3

\* Calls of appendIncremental before an extraction.
MaxExtractAppends == 2

\* Calls on the objects of the heap.
MaxObjectCalls == 3

\* Incrementals made by the constructor.
MaxObjects == 2

\* Appends to a run before it is read.
MaxRunGetAppends == 2

\* The largest index of the calls of getIncremental of a run.
MaxRunIndex == 5

\* The halves of the time values handed to the constructor.
MaxHalves == 4

\* The values of a field of the metadata dictionaries that are compared.
MaxMetadataValue == 2

\* The first extent of the images whose headers are compared.
MaxExtent == 2

\* --------------------------------------------------- dictionaries (dict)
Has(m, k) == k \in DOMAIN m

Update(m, k, v) == [x \in (DOMAIN m) \cup {k} |-> IF x = k THEN v ELSE m[x]]

Merge(m, n) == [x \in (DOMAIN m) \cup (DOMAIN n) |-> IF x \in DOMAIN n THEN n[x] ELSE m[x]]

Restrict(m, ks) == [x \in (DOMAIN m) \cap ks |-> m[x]]

Without(m, k) == [x \in (DOMAIN m) \ {k} |-> m[x]]

EmptyDict == [x \in {} |-> 0]

\* ------------------------------------------------------------ NIfTI image
Dim(h, i) == h.dim[i + 1]

Pixdim(h, i) == h.pixdim[i + 1]

\* The shape nibabel reports for an image: dim[1..dim[0]].
Shape(img) == [i \in 1..Dim(img.hdr, 0) |-> Dim(img.hdr, i)]

\* numpy.concatenate with its two arguments exchanged.
ConcatAxis3Swapped(a, b) == b \o a

\* numpy.concatenate along axis 3 of two 4-D arrays.
ConcatAxis3(a, b) == a \o b

\* The image of one volume v of a 4-D image (numpy index [..., i]).
Volume(img, i) == img.data[i + 1]

\* nibabel.funcs.squeeze_image: drops the trailing unit-length dimensions
\* after the third; the header is copied and its dim set to the new shape.
squeeze_image(img) ==
    IF Dim(img.hdr, 0) = 4 /\ Dim(img.hdr, 4) = 1
    THEN [img EXCEPT !.hdr.dim = <<3, Dim(img.hdr, 1), Dim(img.hdr, 2), Dim(img.hdr, 3), 1>>]
    ELSE img

\* ------------------------------------------------------- bidsCommon.py
BIDS_VERSION == "1.4.1"

\* The entity names of entities.yaml that the model's dictionaries use.
ENTITIES == {"subject", "session", "task", "run"}

DEFAULT_DATASET_DESC ==
    [Name |-> "bidsi_dataset", BIDSVersion |-> BIDS_VERSION,
     Authors |-> <<"The RT-Cloud Authors", "The Dataset Author">>]

REQUIRED_IMAGE_METADATA == {"subject", "task", "suffix", "RepetitionTime", "EchoTime"}

\* Numbers of the metadata are fixed-point, in thousandths, so that the
\* division by 1000.0 of the time normalisation is exact.
Milli == 1000

\* int(v) of Python: truncation towards zero.
IntOf(v) == IF v >= 0 THEN (v \div Milli) * Milli ELSE 0 - (((0 - v) \div Milli) * Milli)

\* filterEntities: a NEW dictionary with the keys that are BIDS entities.
filterEntities(metadata) == Restrict(metadata, ENTITIES)

\* ---------------------------------------------------- bidsIncremental.py
missingImageMetadata(imageMeta) == REQUIRED_IMAGE_METADATA \ DOMAIN imageMeta

\* The ProtocolName values of the model are records of the entity tokens
\* that the regular expression finds in the string ("sub-02_task-x" is
\* [subject |-> "02", task |-> "x"]); a name without tokens is EmptyDict.
metadataFromProtocolName(protocolName) == protocolName

\* fieldToMaxValue = {"RepetitionTime": 100, "EchoTime": 1}
fieldToMaxValue(field) == IF field = "RepetitionTime" THEN 100 * Milli ELSE 1 * Milli

\* One round of the loop over fieldToMaxValue: "keep", "scale" or "fail".
TimeVerdict(field, v) ==
    IF IntOf(v) <= fieldToMaxValue(field) THEN "keep"
    ELSE IF IntOf(v) \div 1000 <= fieldToMaxValue(field) THEN "scale"
    ELSE "fail"

AdjustTime(meta, field) ==
    IF TimeVerdict(field, meta[field]) = "scale"
    THEN Update(meta, field, IntOf(meta[field]) \div 1000)
    ELSE meta

\* The metadata dictionary that __init__ stores (lines 88-118).
InitMetadata(imageMetadata) ==
    LET m1 == IF Has(imageMetadata, "ProtocolName")
              THEN Merge(imageMetadata, metadataFromProtocolName(imageMetadata["ProtocolName"]))
              ELSE imageMetadata
        m2 == Update(m1, "TaskName", m1["task"])
        m3 == IF Has(m2, "datatype") THEN m2 ELSE Update(m2, "datatype", "func")
    IN  AdjustTime(AdjustTime(m3, "RepetitionTime"), "EchoTime")

\* __init__ that keeps a 3-D image as it is.
InitImageNoPromote(image, meta) == squeeze_image(image)

\* The image that __init__ stores (lines 126-144).
InitImage(image, meta) ==
    LET sq == squeeze_image(image)
    IN  IF Dim(sq.hdr, 0) = 3
        THEN [sq EXCEPT !.hdr.dim = <<4, Dim(sq.hdr, 1), Dim(sq.hdr, 2), Dim(sq.hdr, 3), 1>>,
                        !.hdr.pixdim = <<Pixdim(sq.hdr, 0), Pixdim(sq.hdr, 1), Pixdim(sq.hdr, 2),
                                         Pixdim(sq.hdr, 3), meta["RepetitionTime"]>>]
        ELSE sq

\* The exception __init__ raises, or "none".
InitError(image, imageMetadata) ==
    IF missingImageMetadata(imageMetadata) # {} THEN "ValidationError"
    ELSE IF TimeVerdict("RepetitionTime", imageMetadata["RepetitionTime"]) = "fail"
             \/ TimeVerdict("EchoTime", imageMetadata["EchoTime"]) = "fail"
    THEN "ValidationError"
    ELSE IF Dim(squeeze_image(image).hdr, 0) < 3 THEN "ValidationError"
    ELSE IF Dim(squeeze_image(image).hdr, 0) > 4 THEN "AssertionError"
    ELSE "none"

\* BidsIncremental(image, imageMetadata, datasetMetadata), for arguments
\* without InitError: the object's image, _imgMetadata and datasetMetadata.
BidsIncrementalDesc(image, imageMetadata, datasetMetadata) ==
    LET m == InitMetadata(imageMetadata)
    IN  [image |-> InitImage(image, m), imgMetadata |-> m,
         datasetMetadata |-> datasetMetadata]

\* BidsIncremental(image, imageMetadata): datasetMetadata is None and the
\* object takes DEFAULT_DATASET_DESC.
BidsIncremental(image, imageMetadata) ==
    BidsIncrementalDesc(image, imageMetadata, DEFAULT_DATASET_DESC)

\* BidsIncremental.__eq__: the headers, the dimensions, the image
\* metadata, the dataset metadata and the image data, in this order.
IncrementalEq(self, other) ==
    /\ self.image.hdr = other.image.hdr
    /\ Shape(self.image) = Shape(other.image)
    /\ self.imgMetadata = other.imgMetadata
    /\ self.datasetMetadata = other.datasetMetadata
    /\ self.image.data = other.image.data

\* The properties entities, imageMetadata, datatype and suffix that
\* bidsRun.py and bidsArchive.py read.
entities(inc) == filterEntities(inc.imgMetadata)

imgMetadata(inc) == inc.imgMetadata

imageDimensions(inc) == Shape(inc.image)

setMetadataField(inc, field, value) ==
    [inc EXCEPT !.imgMetadata = Update(inc.imgMetadata, field, value)]

\* _exceptIfNotBids(entityName)
exceptIfNotBids(entityName) == entityName \notin ENTITIES

\* setMetadataField(field, value, strict) with its checks: the exception
\* raised or "None", and the object after the call.  The field None is "".
setMetadataFieldStrict(inc, field, value, strict) ==
    IF strict /\ exceptIfNotBids(field) THEN [ret |-> "ValueError", inc |-> inc]
    ELSE IF field = "" THEN [ret |-> "ValueError", inc |-> inc]
    ELSE [ret |-> "None", inc |-> setMetadataField(inc, field, value)]

\* removeMetadataField without the test of REQUIRED_IMAGE_METADATA.
removeMetadataFieldUnguarded(inc, field, strict) ==
    IF strict /\ exceptIfNotBids(field) THEN [ret |-> "ValueError", inc |-> inc]
    ELSE [ret |-> "None", inc |-> [inc EXCEPT !.imgMetadata = Without(@, field)]]

\* removeMetadataField(field, strict): the exception raised or "None", and
\* the object after the call.
removeMetadataField(inc, field, strict) ==
    IF field \in REQUIRED_IMAGE_METADATA THEN [ret |-> "ValueError", inc |-> inc]
    ELSE IF strict /\ exceptIfNotBids(field) THEN [ret |-> "ValueError", inc |-> inc]
    ELSE [ret |-> "None", inc |-> [inc EXCEPT !.imgMetadata = Without(@, field)]]

\* Paths are records: a directory is its subject, session ("" for a path
\* without a ses- part) and datatype, a file its directory and the name
\* that BIDS_FILE_PATTERN builds.
\* getMetadataField("session"), with "" for None.
Session(inc) == IF Has(inc.imgMetadata, "session") THEN inc.imgMetadata["session"] ELSE ""

makeBidsFileName(inc, extension) ==
    [sub |-> inc.imgMetadata["subject"], ses |-> Session(inc), task |-> inc.imgMetadata["task"],
     suffix |-> IF extension = ".tsv" THEN "events" ELSE inc.imgMetadata["suffix"],
     ext |-> extension]

\* bids_build_path(imgMetadata, BIDS_DIR_PATH_PATTERN): the pattern only
\* admits the datatype func.
dataDirPath(inc) == [sub |-> inc.imgMetadata["subject"], ses |-> Session(inc), dt |-> "func"]

imageFilePath(inc) == [dir |-> dataDirPath(inc), name |-> makeBidsFileName(inc, ".nii")]

\* metadataFilePath that leaves the directory out of the path.
metadataFilePathNoDir(inc) ==
    [dir |-> [sub |-> "", ses |-> "", dt |-> ""], name |-> makeBidsFileName(inc, ".json")]

metadataFilePath(inc) == [dir |-> dataDirPath(inc), name |-> makeBidsFileName(inc, ".json")]

\* writeToArchive(datasetRoot): the disk after the call and the metadata
\* dictionary of the incremental after the call (line 478 stores SliceTiming
\* into self._imgMetadata before dumping it).
writeDir(inc) ==
    [sub |-> inc.imgMetadata["subject"], ses |-> Session(inc), dt |-> inc.imgMetadata["datatype"]]

writeToArchiveMetadata(inc) == Update(inc.imgMetadata, "SliceTiming", "linspace(0.0, 1.5, 27)")

\* The disk is a record: the directories, the image files and the sidecar
\* files (functions from the path to the content), the events files, and
\* whether dataset_description.json and README exist.  upto is the number
\* of leading steps of writeToArchive that took place: 1 makedirs, 2 the
\* image, 3 the sidecar, 4 the events file, 5 the description, 6 README.
writeToArchive(inc, d, upto) ==
    LET dir == writeDir(inc)
        imagePath == [dir |-> dir, name |-> makeBidsFileName(inc, ".nii")]
        metadataPath == [dir |-> dir, name |-> makeBidsFileName(inc, ".json")]
        eventsPath == [dir |-> dir, name |-> makeBidsFileName(inc, ".tsv")]
    IN  [dirs |-> IF upto >= 1 THEN d.dirs \cup {dir} ELSE d.dirs,
         img |-> IF upto >= 2 THEN Update(d.img, imagePath, inc.image) ELSE d.img,
         meta |-> IF upto >= 3 THEN Update(d.meta, metadataPath, writeToArchiveMetadata(inc))
                  ELSE d.meta,
         events |-> IF upto >= 4 THEN d.events \cup {eventsPath} ELSE d.events,
         desc |-> IF upto >= 5 THEN TRUE ELSE d.desc,
         readme |-> IF upto >= 6 THEN TRUE ELSE d.readme]

\* -------------------------------------------------------- bidsArchive.py
\* The layout handle self.data.  BIDSLayout(rootPath) raises when the root
\* has no dataset_description.json, and __init__ then stores None: the
\* handle with valid = FALSE.  The index holds the file names and the
\* sidecar metadata read when it was built; image data is read from disk.
NoLayout == [valid |-> FALSE, img |-> {}, meta |-> EmptyDict, events |-> {}]

CanIndex(d) == d.desc

BIDSLayout(d) == IF CanIndex(d)
                 THEN [valid |-> TRUE, img |-> DOMAIN d.img, meta |-> d.meta, events |-> d.events]
                 ELSE NoLayout

isEmpty(data) == ~data.valid

SidecarOf(imgPath) == [imgPath EXCEPT !.name.ext = ".json"]

\* The entities pybids reads from the name and directory of an image file.
FileEntities(imgPath) ==
    LET ents == [subject |-> imgPath.name.sub, task |-> imgPath.name.task,
                 suffix |-> imgPath.name.suffix, datatype |-> imgPath.dir.dt]
    IN  IF imgPath.name.ses = "" THEN ents ELSE Update(ents, "session", imgPath.name.ses)

fileExistsInArchive(data, path) ==
    IF ~data.valid THEN FALSE ELSE path \in data.img \/ path \in DOMAIN data.meta

dirExists(data, d, relPath) == IF ~data.valid THEN FALSE ELSE relPath \in d.dirs

pathExists(data, d, path) == fileExistsInArchive(data, path) \/ dirExists(data, d, path)

\* self.data.get(**entities) restricted to the image files.
LayoutGet(data, ents) ==
    {p \in data.img : \A k \in DOMAIN ents : Has(FileEntities(p), k) /\ FileEntities(p)[k] = ents[k]}

\* getImages(matchExact, **entities) of a non-empty archive, as a set.
getImages(data, ents, matchExact) ==
    IF matchExact THEN {p \in LayoutGet(data, ents) : FileEntities(p) = ents}
    ELSE LayoutGet(data, ents)

\* get_metadata that returns the entities of the file name only.
LayoutMetadataEntitiesOnly(data, imgPath) == FileEntities(imgPath)

\* self.data.get_metadata(path, include_entities=True)
LayoutMetadata(data, imgPath) ==
    IF SidecarOf(imgPath) \in DOMAIN data.meta
    THEN Merge(data.meta[SidecarOf(imgPath)], FileEntities(imgPath))
    ELSE FileEntities(imgPath)

\* four_to_three that repeats the first volume.
four_to_threeFirstVolume(img) ==
    [i \in 1..Len(img.data) |->
        [hdr |-> [img.hdr EXCEPT !.dim = <<3, Dim(img.hdr, 1), Dim(img.hdr, 2),
                                           Dim(img.hdr, 3), 1>>],
         data |-> <<img.data[1]>>]]

\* nibabel.four_to_three: the 3-D images of the volumes of a 4-D image.
four_to_three(img) ==
    [i \in 1..Len(img.data) |->
        [hdr |-> [img.hdr EXCEPT !.dim = <<3, Dim(img.hdr, 1), Dim(img.hdr, 2),
                                           Dim(img.hdr, 3), 1>>],
         data |-> <<img.data[i]>>]]

\* getIncremental without the test of line 736: a negative sliceIndex
\* counts from the last volume, as a Python index does.
getIncrementalNegativeIndex(data, d, sliceIndex, ents) ==
    LET candidates == getImages(data, ents, FALSE)
        candidate == CHOOSE c \in candidates : TRUE
        image == d.img[candidate]
        metadata == LayoutMetadata(data, candidate)
        slices == four_to_three(image)
        index == IF sliceIndex < 0 THEN Len(slices) + sliceIndex ELSE sliceIndex
        Raise(e) == [ret |-> e, inc |-> <<>>]
        Build(img) == IF InitError(img, metadata) # "none" THEN Raise(InitError(img, metadata))
                      ELSE [ret |-> "ok", inc |-> <<BidsIncremental(img, metadata)>>]
    IN  IF candidates = {} THEN Raise("NoMatchError")
        ELSE IF Cardinality(candidates) > 1 THEN Raise("RuntimeError")
        ELSE IF Dim(image.hdr, 0) = 3
             THEN IF sliceIndex # 0 THEN Raise("IndexError") ELSE Build(image)
        ELSE IF index >= 0 /\ index < Len(slices) THEN Build(slices[index + 1])
        ELSE Raise("IndexError")

\* getIncremental(sliceIndex, **entities) of a non-empty archive: the
\* exception raised or "ok", and the incremental returned.
getIncremental(data, d, sliceIndex, ents) ==
    LET candidates == getImages(data, ents, FALSE)
        candidate == CHOOSE c \in candidates : TRUE
        image == d.img[candidate]
        metadata == LayoutMetadata(data, candidate)
        Raise(e) == [ret |-> e, inc |-> <<>>]
        Build(img) == IF InitError(img, metadata) # "none" THEN Raise(InitError(img, metadata))
                      ELSE [ret |-> "ok", inc |-> <<BidsIncremental(img, metadata)>>]
    IN  IF sliceIndex < 0 THEN Raise("IndexError")
        ELSE IF candidates = {} THEN Raise("NoMatchError")
        ELSE IF Cardinality(candidates) > 1 THEN Raise("RuntimeError")
        ELSE IF Dim(image.hdr, 0) = 3
             THEN IF sliceIndex # 0 THEN Raise("IndexError") ELSE Build(image)
        ELSE IF sliceIndex < Len(four_to_three(image))
             THEN Build(four_to_three(image)[sliceIndex + 1])
        ELSE Raise("IndexError")

\* self.data.get(**entities) of getEvents: the events files of the index.
getEvents(data, ents) ==
    {p \in data.events : \A k \in DOMAIN ents :
        Has(FileEntities(p), k) /\ FileEntities(p)[k] = ents[k]}

\* The outcome of a query of the archive as the caller sees it: the name
\* of the exception raised, or the kind of value returned.  failIfEmpty
\* wraps getImages, getMetadata, getEvents and getIncremental only;
\* tryGetFile calls self.get_file, which __getattr__ answers with None on
\* an empty archive.
QueryOps == {"getImages", "getEvents", "getMetadata", "pathExists", "dirExists",
             "fileExistsInArchive", "tryGetFile", "getIncremental"}

failIfEmpty(data, outcome) == IF ~data.valid THEN "StateError" ELSE outcome

Bool(b) == IF b THEN "True" ELSE "False"

QueryOutcome(op, data, d, path, ents, sliceIndex) ==
    CASE op = "getImages" -> failIfEmpty(data, "list")
      [] op = "getEvents" -> failIfEmpty(data, "list")
      [] op = "getMetadata" ->
            failIfEmpty(data, IF path \in data.img \/ path \in DOMAIN data.meta
                              THEN "dict" ELSE "NoMatchError")
      [] op = "getIncremental" ->
            failIfEmpty(data, getIncremental(data, d, sliceIndex, ents).ret)
      [] op = "pathExists" -> Bool(pathExists(data, d, path))
      [] op = "dirExists" -> Bool(dirExists(data, d, path.dir))
      [] op = "fileExistsInArchive" -> Bool(fileExistsInArchive(data, path))
      [] op = "tryGetFile" ->
            IF isEmpty(data) THEN "TypeError"
            ELSE IF path \in data.img \/ path \in DOMAIN data.meta THEN "BIDSFile" ELSE "None"

\* np.allclose(v1, v2, atol=0.0, equal_nan=True) on numbers: numpy tests
\* |v1 - v2| <= atol + rtol * |v2| with its default rtol of 1e-5, so the
\* allowance is measured on the second argument (the model's header
\* values are whole numbers and none is NaN).
allclose(v1, v2) ==
    (IF v1 < v2 THEN v2 - v1 ELSE v1 - v2) <= (IF v2 < 0 THEN 0 - v2 ELSE v2) \div 100000

\* _imagesAppendCompatible without the comparison of the must-match fields.
imagesAppendCompatibleDimsOnly(img1, img2) ==
    LET header1 == img1.hdr
        header2 == img2.hdr
        nDimensions1 == Dim(header1, 0)
        nDimensions2 == Dim(header2, 0)
        nSharedDimensions == IF nDimensions1 < nDimensions2 THEN nDimensions1 ELSE nDimensions2
    IN  IF nDimensions1 = nDimensions2
        THEN /\ header1.pixdim = header2.pixdim
             /\ \A i \in 0..(nDimensions1 - 1) : Dim(header1, i) = Dim(header2, i)
        ELSE /\ (nDimensions1 - nDimensions2 = 1 \/ nDimensions2 - nDimensions1 = 1)
             /\ \A i \in 1..nSharedDimensions : Dim(header1, i) = Dim(header2, i)
             /\ \A i \in 0..nSharedDimensions : Pixdim(header1, i) = Pixdim(header2, i)

\* The must-match header fields are one value, mf, of the header record.
imagesAppendCompatible(img1, img2) ==
    LET header1 == img1.hdr
        header2 == img2.hdr
        nDimensions1 == Dim(header1, 0)
        nDimensions2 == Dim(header2, 0)
        nSharedDimensions == IF nDimensions1 < nDimensions2 THEN nDimensions1 ELSE nDimensions2
    IN  /\ allclose(header1.mf, header2.mf)
        /\ IF nDimensions1 = nDimensions2
           THEN /\ header1.pixdim = header2.pixdim
                /\ \A i \in 0..(nDimensions1 - 1) : Dim(header1, i) = Dim(header2, i)
           ELSE /\ (nDimensions1 - nDimensions2 = 1 \/ nDimensions2 - nDimensions1 = 1)
                /\ \A i \in 1..nSharedDimensions : Dim(header1, i) = Dim(header2, i)
                /\ \A i \in 0..nSharedDimensions : Pixdim(header1, i) = Pixdim(header2, i)

matchFields ==
    {"Modality", "MagneticFieldStrength", "ImagingFrequency", "Manufacturer",
     "ManufacturersModelName", "InstitutionName", "InstitutionAddress",
     "DeviceSerialNumber", "StationName", "BodyPartExamined", "PatientPosition",
     "EchoTime", "ProcedureStepDescription", "SoftwareVersions", "MRAcquisitionType",
     "SeriesDescription", "ProtocolName", "ScanningSequence", "SequenceVariant",
     "ScanOptions", "SequenceName", "SpacingBetweenSlices", "SliceThickness",
     "ImageType", "RepetitionTime", "PhaseEncodingDirection", "FlipAngle",
     "InPlanePhaseEncodingDirectionDICOM", "ImageOrientationPatientDICOM",
     "PartialFourier"}

differentFields == {"AcquisitionTime", "AcquisitionNumber"}

\* _metadataAppendCompatible without the loop over differentFields.
metadataAppendCompatibleMatchOnly(meta1, meta2) ==
    \A f \in matchFields : (Has(meta1, f) /\ Has(meta2, f)) => meta1[f] = meta2[f]

metadataAppendCompatible(meta1, meta2) ==
    /\ \A f \in matchFields : (Has(meta1, f) /\ Has(meta2, f)) => meta1[f] = meta2[f]
    /\ \A f \in differentFields : (Has(meta1, f) /\ Has(meta2, f)) => meta1[f] # meta2[f]

\* The archive while a call runs: the disk, the layout handle self.data and
\* the number of writes to the disk since self.data was built.
\* _updateLayout that only builds a layout when the archive has none.
updateLayoutOnce(st) == IF st.data.valid THEN st ELSE [st EXCEPT !.data = BIDSLayout(st.disk), !.stale = 0]

updateLayout(st) == [st EXCEPT !.data = BIDSLayout(st.disk), !.stale = 0]

ensurePathExists(st, relPath) ==
    IF dirExists(st.data, st.disk, relPath) THEN st
    ELSE [st EXCEPT !.disk.dirs = st.disk.dirs \cup {relPath}, !.stale = @ + 1]

addImage(st, img, path) ==
    LET layoutUpdateRequired == ~dirExists(st.data, st.disk, path.dir)
        s1 == ensurePathExists(st, path.dir)
        s2 == [s1 EXCEPT !.disk.img = Update(s1.disk.img, path, img), !.stale = @ + 1]
    IN  IF layoutUpdateRequired THEN updateLayout(s2) ELSE s2

\* _addMetadata without the call of _updateLayout.
addMetadataNoIndex(st, metadata, path) ==
    [st EXCEPT !.disk.meta = Update(st.disk.meta, path, metadata), !.stale = @ + 1]

addMetadata(st, metadata, path) ==
    updateLayout([st EXCEPT !.disk.meta = Update(st.disk.meta, path, metadata), !.stale = @ + 1])

\* Lines 655-681: the image that the append to an existing image saves.
ConcatImage(archiveImg, inc) ==
    LET h == archiveImg.hdr
        pixdim4 == IF Dim(h, 0) = 3 THEN inc.imgMetadata["RepetitionTime"] ELSE Pixdim(h, 4)
        newArchiveData == ConcatAxis3(archiveImg.data, inc.image.data)
    IN  [hdr |-> [h EXCEPT !.dim = <<4, Dim(h, 1), Dim(h, 2), Dim(h, 3), Len(newArchiveData)>>,
                           !.pixdim = <<Pixdim(h, 0), Pixdim(h, 1), Pixdim(h, 2), Pixdim(h, 3),
                                        pixdim4>>],
         data |-> newArchiveData]

\* The branches of appendIncremental without the test of makePath at
\* line 686.
AppendBranchAlwaysMakes(inc, makePath, st) ==
    IF isEmpty(st.data) /\ makePath THEN "empty"
    ELSE IF pathExists(st.data, st.disk, imageFilePath(inc)) THEN "existing"
    ELSE "new"

\* The branch of appendIncremental (line 629, 633, 686 or 693).
AppendBranch(inc, makePath, st) ==
    IF isEmpty(st.data) /\ makePath THEN "empty"
    ELSE IF pathExists(st.data, st.disk, imageFilePath(inc)) THEN "existing"
    ELSE IF pathExists(st.data, st.disk, dataDirPath(inc)) \/ makePath THEN "new"
    ELSE "refused"

\* The exception that the checks of lines 643-653 raise, or "none".
ExistingError(inc, st) ==
    LET imgPath == imageFilePath(inc)
        entityDict == Update(Update(entities(inc), "datatype", inc.imgMetadata["datatype"]),
                             "suffix", inc.imgMetadata["suffix"])
        images == getImages(st.data, entityDict, TRUE)
    IN  IF Cardinality(images) # 1 THEN "AssertionError"
        ELSE IF ~imagesAppendCompatible(inc.image, st.disk.img[imgPath]) THEN "RuntimeError"
        ELSE IF ~metadataAppendCompatible(imgMetadata(inc), LayoutMetadata(st.data, imgPath))
        THEN "RuntimeError"
        ELSE "none"

\* appendIncremental(incremental, makePath).  fault names the write at
\* which the filesystem raises OSError: "none", "image" (nib.save),
\* "sidecar" (the open of the sidecar file) or "index" (BIDSLayout).
\* The result is the value returned or the exception raised, the archive
\* and the incremental after the call.
appendIncremental(inc, makePath, st, fault) ==
    LET branch == AppendBranch(inc, makePath, st)
        imgPath == imageFilePath(inc)
        Done(r, s, i) == [ret |-> r, branch |-> branch, st |-> s, inc |-> i]
    IN  CASE branch = "empty" ->
              LET n == IF fault = "image" THEN 1 ELSE IF fault = "sidecar" THEN 2 ELSE 6
                  s1 == [st EXCEPT !.disk = writeToArchive(inc, st.disk, n), !.stale = @ + n]
                  i1 == IF n >= 3 THEN [inc EXCEPT !.imgMetadata = writeToArchiveMetadata(inc)]
                        ELSE inc
              IN  IF fault \in {"image", "sidecar", "index"} THEN Done("OSError", s1, i1)
                  ELSE Done("True", updateLayout(s1), i1)
          [] branch = "existing" ->
              IF ExistingError(inc, st) # "none" THEN Done(ExistingError(inc, st), st, inc)
              ELSE IF fault = "image" THEN Done("OSError", st, inc)
              ELSE Done("True", addImage(st, ConcatImage(st.disk.img[imgPath], inc), imgPath), inc)
          [] branch = "new" ->
              IF fault = "image"
              THEN Done("OSError", ensurePathExists(st, imgPath.dir), inc)
              ELSE LET s1 == addImage(st, inc.image, imgPath)
                   IN  IF fault = "sidecar" THEN Done("OSError", s1, inc)
                       ELSE IF fault = "index"
                       THEN Done("OSError",
                                 [s1 EXCEPT !.disk.meta = Update(s1.disk.meta, metadataFilePath(inc),
                                                                 imgMetadata(inc)),
                                            !.stale = @ + 1], inc)
                       ELSE Done("True", addMetadata(s1, imgMetadata(inc), metadataFilePath(inc)),
                                 inc)
          [] OTHER -> Done("False", st, inc)

\* -------------------------------------------------------------- bidsRun.py
\* niftiImagesAppendCompatible of bidsCommon: the header comparison that
\* BidsArchive._imagesAppendCompatible makes.
niftiImagesAppendCompatible(img1, img2) == imagesAppendCompatible(img1, img2)

\* BidsRun(**entities)
BidsRun(ents) == [incrementals |-> <<>>, entities |-> ents]

numIncrementals(r) == Len(r.incrementals)

getRunEntities(r) == r.entities

\* Lines 96-109: the single-image incrementals built from the volumes of
\* an incremental, each by the constructor from the metadata of the whole.
SplitIncremental(incremental) ==
    LET image == incremental.image
        metadata == imgMetadata(incremental)
        imagesInVolume == imageDimensions(incremental)[4]
        newImage(imageIdx) ==
            [hdr |-> [image.hdr EXCEPT !.dim = <<3, Dim(image.hdr, 1), Dim(image.hdr, 2),
                                                 Dim(image.hdr, 3), 1>>],
             data |-> <<Volume(image, imageIdx)>>]
    IN  [i \in 1..imagesInVolume |-> BidsIncremental(newImage(i - 1), metadata)]

\* appendIncremental that assigns the run's entities at every call,
\* without the test of line 71.
RunAppendAlwaysAssign(r, incremental, validateAppend) ==
    LET r1 == [r EXCEPT !.entities = entities(incremental)]
        entityMismatch == validateAppend /\ entities(incremental) # r1.entities
        niftiMismatch ==
            /\ validateAppend
            /\ numIncrementals(r1) > 0
            /\ ~niftiImagesAppendCompatible(incremental.image,
                                            r1.incrementals[Len(r1.incrementals)].image)
        imagesInVolume == imageDimensions(incremental)[4]
    IN  IF entityMismatch \/ niftiMismatch
        THEN [ret |-> "MetadataMismatchError", run |-> r1]
        ELSE [ret |-> "None",
              run |-> [r1 EXCEPT !.incrementals =
                          IF imagesInVolume = 1 THEN Append(@, incremental)
                          ELSE @ \o SplitIncremental(incremental)]]

\* BidsRun.appendIncremental(incremental, validateAppend): the exception
\* raised or "None", and the run after the call.
RunAppend(r, incremental, validateAppend) ==
    LET r1 == IF Cardinality(DOMAIN r.entities) = 0
              THEN [r EXCEPT !.entities = entities(incremental)] ELSE r
        entityMismatch == validateAppend /\ entities(incremental) # r1.entities
        niftiMismatch ==
            /\ validateAppend
            /\ numIncrementals(r1) > 0
            /\ ~niftiImagesAppendCompatible(incremental.image,
                                            r1.incrementals[Len(r1.incrementals)].image)
        imagesInVolume == imageDimensions(incremental)[4]
    IN  IF entityMismatch \/ niftiMismatch
        THEN [ret |-> "MetadataMismatchError", run |-> r1]
        ELSE [ret |-> "None",
              run |-> [r1 EXCEPT !.incrementals =
                          IF imagesInVolume = 1 THEN Append(@, incremental)
                          ELSE @ \o SplitIncremental(incremental)]]

\* BidsRun.getIncremental(index): the exception raised or "ok", and the
\* incremental returned.  A list takes the indexes -n..n-1; for any other
\* index the handler of line 48 builds its message with self.numVols(),
\* which BidsRun does not define.
RunGet(r, index) ==
    LET n == Len(r.incrementals)
    IN  IF index >= 0 /\ index < n THEN [ret |-> "ok", inc |-> <<r.incrementals[index + 1]>>]
        ELSE IF index < 0 /\ index >= 0 - n
        THEN [ret |-> "ok", inc |-> <<r.incrementals[n + index + 1]>>]
        ELSE [ret |-> "AttributeError", inc |-> <<>>]

\* BidsRun.__eq__ (lines 27-32): the lengths, the entities, and the lists
\* of incrementals, element by element with BidsIncremental.__eq__.
RunEq(self, other) ==
    /\ numIncrementals(self) = numIncrementals(other)
    /\ getRunEntities(self) = getRunEntities(other)
    /\ \A i \in 1..numIncrementals(self) :
          IncrementalEq(self.incrementals[i], other.incrementals[i])

\* ------------------------------------------------------- serialization
\* pickle.dumps(incremental): the class defines no __getstate__, so the
\* buffer holds the attributes of the object, the image as the header and
\* the data of its file.
serialize(inc) ==
    <<"BidsIncremental", inc.image.hdr, inc.image.data, inc.imgMetadata, inc.datasetMetadata>>

\* pickle.loads of a buffer without the dataset description: the object
\* takes the default one.
deserializeDefaultDesc(buf) ==
    [image |-> [hdr |-> buf[2], data |-> buf[3]], imgMetadata |-> buf[4],
     datasetMetadata |-> DEFAULT_DATASET_DESC]

\* pickle.loads(buffer): a new object with the stored attributes; __init__
\* does not run.
deserialize(buf) ==
    [image |-> [hdr |-> buf[2], data |-> buf[3]], imgMetadata |-> buf[4],
     datasetMetadata |-> buf[5]]

\* ------------------------------------------------- the runs of an archive
\* The run after run.appendIncremental(BidsIncremental(frame, metadata),
\* validateAppend=False) for each frame in order.
RECURSIVE AppendFrames(_, _, _)
AppendFrames(r, frames, metadata) ==
    IF frames = <<>> THEN r
    ELSE AppendFrames(RunAppend(r, BidsIncremental(Head(frames), metadata), FALSE).run,
                      Tail(frames), metadata)

\* getBidsRun(**entities) of a non-empty archive: the exception raised or
\* "ok", and the run returned.
getBidsRun(data, d, ents) ==
    LET candidates == getImages(data, ents, FALSE)
        candidate == CHOOSE c \in candidates : TRUE
        image == d.img[candidate]
        metadata == LayoutMetadata(data, candidate)
        frames == IF Dim(image.hdr, 0) = 3 THEN <<image>> ELSE four_to_three(image)
        Raise(e) == [ret |-> e, run |-> <<>>]
    IN  IF candidates = {} THEN Raise("NoMatchError")
        ELSE IF Cardinality(candidates) > 1 THEN Raise("RuntimeError")
        ELSE IF InitError(image, metadata) # "none" THEN Raise(InitError(image, metadata))
        ELSE [ret |-> "ok", run |-> <<AppendFrames(BidsRun(ents), frames, metadata)>>]

\* -------------------------------------------------------------- objects
\* Python holds objects by reference.  The heap is the incrementals made
\* so far (the reference of an incremental is its position), the
\* dictionaries that their datasetMetadata attributes refer to, and a
\* run, whose list holds references of incrementals.
\* The reference of the module's dictionary DEFAULT_DATASET_DESC.
DefaultDescRef == 0

EmptyHeap ==
    [incs |-> <<>>, descs |-> [r \in {DefaultDescRef} |-> DEFAULT_DATASET_DESC],
     run |-> BidsRun(EmptyDict)]

\* The incremental at a reference, with the dictionary that its
\* datasetMetadata refers to.
Deref(h, ref) ==
    [image |-> h.incs[ref].image, imgMetadata |-> h.incs[ref].imgMetadata,
     datasetMetadata |-> h.descs[h.incs[ref].desc]]

\* The run with the incrementals that its list refers to.
RunOf(h) ==
    [incrementals |-> [i \in 1..Len(h.run.incrementals) |-> Deref(h, h.run.incrementals[i])],
     entities |-> h.run.entities]

\* BidsIncremental(image, imageMetadata, datasetMetadata) for arguments
\* without InitError: datasetMetadata is <<>> for None, and the object
\* then refers to DEFAULT_DATASET_DESC itself (line 122); otherwise it
\* refers to a deepcopy of its own (line 124).
NewIncremental(h, image, imageMetadata, datasetMetadata) ==
    LET ref == Len(h.incs) + 1
        x == BidsIncremental(image, imageMetadata)
    IN  [h EXCEPT !.incs = Append(@, [image |-> x.image, imgMetadata |-> x.imgMetadata,
                                      desc |-> IF datasetMetadata = <<>> THEN DefaultDescRef
                                               ELSE ref]),
                  !.descs = IF datasetMetadata = <<>> THEN @
                            ELSE Update(@, ref, datasetMetadata[1])]

\* incremental.datasetMetadata[key] = value
setDatasetField(h, ref, key, value) ==
    [h EXCEPT !.descs[h.incs[ref].desc] = Update(@, key, value)]

\* pickle.loads(pickle.dumps(incremental)): a new object with a
\* dictionary of its own.
HeapPickle(h, ref) ==
    LET new == Len(h.incs) + 1
        x == deserialize(serialize(Deref(h, ref)))
    IN  [h EXCEPT !.incs = Append(@, [image |-> x.image, imgMetadata |-> x.imgMetadata,
                                      desc |-> new]),
                  !.descs = Update(@, new, x.datasetMetadata)]

\* run.appendIncremental(incremental, validateAppend) on the heap: line 96
\* stores the caller's object, lines 97-109 store new objects.
HeapRunAppend(h, ref, validateAppend) ==
    LET incremental == Deref(h, ref)
        r == RunAppend(RunOf(h), incremental, validateAppend)
        split == SplitIncremental(incremental)
        n == Len(h.incs)
    IN  IF r.ret # "None"
        THEN [ret |-> r.ret, heap |-> [h EXCEPT !.run.entities = r.run.entities]]
        ELSE IF imageDimensions(incremental)[4] = 1
        THEN [ret |-> "None",
              heap |-> [h EXCEPT !.run = [incrementals |-> Append(h.run.incrementals, ref),
                                          entities |-> r.run.entities]]]
        ELSE [ret |-> "None",
              heap |-> [h EXCEPT !.incs = @ \o [i \in 1..Len(split) |->
                                                  [image |-> split[i].image,
                                                   imgMetadata |-> split[i].imgMetadata,
                                                   desc |-> DefaultDescRef]],
                                 !.run = [incrementals |-> h.run.incrementals
                                                              \o [i \in 1..Len(split) |-> n + i],
                                          entities |-> r.run.entities]]]

\* ------------------------------------------------------------- the inputs
Subjects == {"01", "02"}

Tasks == {"faces", "rest"}

\* Header of an n-dimensional test image of nVols volumes; mf stands for
\* the must-match fields (datatype 512 in the sample images, 32 in
\* testConflictingNiftiHeaderAppend).
Header(n, nVols, mf, pixdim4) ==
    [mf |-> mf, dim |-> <<n, 2, 2, 2, nVols>>, pixdim |-> <<1, 1, 1, 1, pixdim4>>]

\* RepetitionTime of the test metadata: 2 s, in thousandths.
TR == 2 * Milli

\* EchoTime of the test metadata: 0.03 s, in thousandths.
TE == 30

Image3D(v, mf) == [hdr |-> Header(3, 1, mf, 0), data |-> <<v>>]

Image4D(v, mf) == [hdr |-> Header(4, 2, mf, TR), data |-> <<v, v + 1>>]

InputImages ==
    {Image3D(v, mf) : v \in 1..MaxVoxel, mf \in {512, 32}}
        \cup {Image4D(v, mf) : v \in 1..(MaxVoxel - 1), mf \in {512, 32}}

createImageMetadataDict(subject, task, suffix, repetitionTime, echoTime) ==
    [subject |-> subject, task |-> task, suffix |-> suffix,
     RepetitionTime |-> repetitionTime, EchoTime |-> echoTime]

\* The subject and task of the images: two images of one directory and
\* one image of another directory.
SubjectTasks == {<<"01", "faces">>, <<"01", "rest">>, <<"02", "faces">>}

InputMetadata ==
    {Update(createImageMetadataDict(st[1], st[2], "bold", TR, TE), "AcquisitionTime", a) :
        st \in SubjectTasks, a \in {1 * Milli, 3 * Milli}}

\* The incrementals handed to the archive.
InputIncrementals ==
    {BidsIncremental(i, m) : i \in {x \in InputImages : x.hdr.mf = 512 \/ x.data[1] = 1},
                             m \in InputMetadata}

\* archiveWithImage of tests/conftest.py: a dataset made by hand of one
\* image and its metadata.
archiveWithImage(image, metadata) ==
    LET dir == [sub |-> metadata["subject"], ses |-> "", dt |-> "func"]
        name == [sub |-> metadata["subject"], ses |-> "", task |-> metadata["task"],
                 suffix |-> metadata["suffix"], ext |-> ".nii"]
    IN  [dirs |-> {dir},
         img |-> Update(EmptyDict, [dir |-> dir, name |-> name], image),
         meta |-> Update(EmptyDict, [dir |-> dir, name |-> [name EXCEPT !.ext = ".json"]],
                         metadata),
         events |-> {}, desc |-> TRUE, readme |-> TRUE]

EmptyDisk == [dirs |-> {}, img |-> EmptyDict, meta |-> EmptyDict, events |-> {},
              desc |-> FALSE, readme |-> FALSE]

FixtureMetadata ==
    Update(createImageMetadataDict("01", "faces", "bold", TR, TE), "AcquisitionTime", 1 * Milli)

\* The datasets a BidsArchive is opened on: the root that does not exist,
\* bidsArchive3D and bidsArchive4D.
InitialDisks ==
    {EmptyDisk, archiveWithImage(Image3D(1, 512), FixtureMetadata),
     archiveWithImage(Image4D(1, 512), FixtureMetadata)}

\* ---------------------------------------------------------------- state
VARIABLES
    disk,      \* the files below rootPath
    data,      \* BidsArchive.data, the layout handle
    stale,     \* writes to the disk since data was built
    initial,   \* the images of the disk when the archive was opened
    appended,  \* per image path, the volumes of the appends that returned True
    last,      \* the last call: its name, branch and outcome
    lastInc,   \* the incremental of the last appendIncremental, before and after
    nAppends,  \* number of appendIncremental calls so far
    threads,   \* per thread, its call of appendIncremental on this archive
    run,       \* a BidsRun: its incrementals and _entities
    runLog,    \* the entities the run was created with and its last call
    result,    \* the object that the last extraction or conversion returned
    source,    \* the archive that a rebuild reads its run from
    heap,      \* the incrementals, dictionaries and run that a program holds by reference
    call       \* the last call on an object of the heap

vars == <<disk, data, stale, initial, appended, last, lastInc, nAppends, threads, run, runLog,
          result, source, heap, call>>

NoCall == [op |-> "none", ret |-> "none", branch |-> "none", wasEmpty |-> FALSE,
           makePath |-> FALSE, fault |-> "none"]

\* The threads that share one BidsArchive object.
Threads == {"t1", "t2"}

\* A thread that has not called appendIncremental.
Idle == [pc |-> "idle", inc |-> <<>>, makePath |-> FALSE, branch |-> "none",
         archiveImg |-> <<>>, ret |-> "none"]

\* No call of the run yet.
NoRunCall == [op |-> "none", ret |-> "none", validateAppend |-> FALSE, incremental |-> <<>>,
              before |-> <<>>]

Init ==
    /\ threads = [t \in Threads |-> Idle]
    /\ run = BidsRun(EmptyDict)
    /\ runLog = [created |-> EmptyDict, first |-> <<>>, call |-> NoRunCall]
    /\ result = <<>>
    /\ source = <<>>
    /\ heap = <<>>
    /\ call = <<>>
    /\ disk \in InitialDisks
    /\ data = BIDSLayout(disk)
    /\ stale = 0
    /\ initial = disk.img
    /\ appended = EmptyDict
    /\ last = NoCall
    /\ lastInc = <<>>
    /\ nAppends = 0

\* The volumes of the image file at path p, <<>> when there is none.
VolumesOf(images, p) == IF p \in DOMAIN images THEN images[p].data ELSE <<>>

\* The volumes appended so far to the image file at path p.
AppendedTo(a, p) == IF p \in DOMAIN a THEN a[p] ELSE <<>>

AppendCall(inc, makePath, fault) ==
    /\ nAppends < MaxAppends
    /\ \E r \in {appendIncremental(inc, makePath,
                                   [disk |-> disk, data |-> data, stale |-> stale], fault)} :
        /\ nAppends' = nAppends + 1
        /\ disk' = r.st.disk
        /\ data' = r.st.data
        /\ stale' = r.st.stale
        /\ appended' = IF r.ret = "True"
                       THEN Update(appended, imageFilePath(inc),
                                   AppendedTo(appended, imageFilePath(inc)) \o inc.image.data)
                       ELSE appended
        /\ last' = [op |-> "appendIncremental", ret |-> r.ret, branch |-> r.branch,
                    wasEmpty |-> isEmpty(data), makePath |-> makePath, fault |-> fault]
        /\ lastInc' = <<inc, r.inc>>
        /\ UNCHANGED <<heap, call, source, initial, threads, run, runLog, result>>

\* archive.appendIncremental(incremental, makePath) on a working filesystem.
AppendIncremental ==
    \E inc \in InputIncrementals, makePath \in BOOLEAN : AppendCall(inc, makePath, "none")

Next == AppendIncremental

Spec == Init /\ [][Next]_vars

\* ------------------------------------------------------------ the queries
\* The arguments of the queries: the paths and entities of the inputs.
QueryPaths == {imageFilePath(inc) : inc \in InputIncrementals}

QueryEntities == {entities(inc) : inc \in InputIncrementals}

NoPath == CHOOSE p \in QueryPaths : TRUE

NoEntities == CHOOSE e \in QueryEntities : TRUE

\* The calls: the operation with the arguments it reads.
Queries ==
    {[op |-> o, path |-> p, ents |-> NoEntities, sliceIndex |-> 0] :
        o \in {"getMetadata", "pathExists", "dirExists", "fileExistsInArchive", "tryGetFile"},
        p \in QueryPaths}
    \cup {[op |-> o, path |-> NoPath, ents |-> e, sliceIndex |-> 0] :
        o \in {"getImages", "getEvents"}, e \in QueryEntities}
    \cup {[op |-> "getIncremental", path |-> NoPath, ents |-> e, sliceIndex |-> i] :
        e \in QueryEntities, i \in -1..MaxSlice}

\* One of the queries of QueryOps, with any arguments.
Query ==
    \E q \in Queries :
        /\ last' = [op |-> q.op,
                    ret |-> QueryOutcome(q.op, data, disk, q.path, q.ents, q.sliceIndex),
                    branch |-> "none", wasEmpty |-> isEmpty(data), makePath |-> FALSE,
                    fault |-> "none"]
        /\ lastInc' = <<>>
        /\ UNCHANGED <<heap, call, source, disk, data, stale, initial, appended, nAppends, threads, run, runLog, result>>

\* The appends that open the archive for the queries.
QueryAppend == nAppends < MaxQueryAppends /\ AppendIncremental

SpecQuery == Init /\ [][QueryAppend \/ Query]_vars

\* ------------------------------------------------- failing filesystem
\* appendIncremental while a write raises OSError (disk full, permission
\* lost) or the call is interrupted at that write: nib.save, the open of
\* the sidecar file, or the BIDSLayout of _updateLayout.
Faults == {"image", "sidecar", "index"}

AppendFault ==
    \E inc \in InputIncrementals, makePath \in BOOLEAN, fault \in Faults :
        AppendCall(inc, makePath, fault)

SpecFault == Init /\ [][nAppends < MaxFaultAppends /\ (AppendIncremental \/ AppendFault)]_vars

\* ------------------------------------------------------ two threads
\* appendIncremental takes no lock, so a call of one thread runs in two
\* steps between which the other thread may run: the choice of the branch
\* with the load and the checks of the archive image (lines 629-653), and
\* the writes (lines 630-631, 655-682, 688-689).
appendRead(inc, makePath, st) ==
    LET branch == AppendBranch(inc, makePath, st)
        err == IF branch = "existing" THEN ExistingError(inc, st) ELSE "none"
    IN  [branch |-> branch,
         ret |-> IF branch = "refused" THEN "False" ELSE err,
         archiveImg |-> IF branch = "existing" /\ err = "none"
                        THEN <<st.disk.img[imageFilePath(inc)]>> ELSE <<>>]

appendWrite(inc, branch, archiveImg, st) ==
    LET imgPath == imageFilePath(inc)
    IN  CASE branch = "empty" ->
              updateLayout([st EXCEPT !.disk = writeToArchive(inc, st.disk, 6), !.stale = @ + 6])
          [] branch = "existing" -> addImage(st, ConcatImage(archiveImg[1], inc), imgPath)
          [] branch = "new" ->
              addMetadata(addImage(st, inc.image, imgPath), imgMetadata(inc),
                          metadataFilePath(inc))

\* Thread t calls appendIncremental(inc, makePath) and runs up to the writes.
ConcStart(t) ==
    /\ threads[t].pc = "idle"
    /\ \E inc \in InputIncrementals, makePath \in BOOLEAN :
         \E r \in {appendRead(inc, makePath, [disk |-> disk, data |-> data, stale |-> stale])} :
            threads' = [threads EXCEPT ![t] =
                [pc |-> IF r.ret = "none" THEN "running" ELSE "done",
                 inc |-> <<inc>>, makePath |-> makePath, branch |-> r.branch,
                 archiveImg |-> r.archiveImg, ret |-> r.ret]]
    /\ UNCHANGED <<heap, call, source, disk, data, stale, initial, appended, last, lastInc, nAppends, run, runLog, result>>

\* Thread t writes and returns True.
ConcFinish(t) ==
    /\ threads[t].pc = "running"
    /\ \E s \in {appendWrite(threads[t].inc[1], threads[t].branch, threads[t].archiveImg,
                              [disk |-> disk, data |-> data, stale |-> stale])} :
            /\ disk' = s.disk
            /\ data' = s.data
            /\ stale' = s.stale
    /\ threads' = [threads EXCEPT ![t].pc = "done", ![t].ret = "True"]
    /\ UNCHANGED <<heap, call, source, initial, appended, last, lastInc, nAppends, run, runLog, result>>

SpecConc == Init /\ [][\E t \in Threads : ConcStart(t) \/ ConcFinish(t)]_vars

\* ---------------------------------------------------------------- a run
\* The metadata of the run's incrementals: two tasks of one subject, and
\* a ProtocolName that holds the token task-faces.
RunMetadata ==
    {createImageMetadataDict("01", task, "bold", TR, TE) : task \in Tasks}
        \cup {Update(createImageMetadataDict("01", "faces", "bold", TR, TE),
                     "ProtocolName", [task |-> "faces"])}

RunImages == {Image3D(1, 512), Image4D(1, 512), Image3D(1, 32)}

\* The incrementals handed to the run: as constructed, or with the task
\* set by setMetadataField after construction.
RunIncrementals ==
    LET constructed == {BidsIncremental(i, m) : i \in RunImages, m \in RunMetadata}
    IN  constructed
            \cup {setMetadataField(x, "task", "rest") :
                     x \in {c \in constructed : Has(c.imgMetadata, "ProtocolName")}}

\* The keyword arguments of BidsRun(**entities).
RunEntities == {EmptyDict, [subject |-> "01"], [subject |-> "01", task |-> "faces"]}

RunInit ==
    /\ disk = EmptyDisk
    /\ data = BIDSLayout(disk)
    /\ stale = 0
    /\ initial = disk.img
    /\ appended = EmptyDict
    /\ last = NoCall
    /\ lastInc = <<>>
    /\ nAppends = 0
    /\ threads = [t \in Threads |-> Idle]
    /\ \E ents \in RunEntities :
          /\ run = BidsRun(ents)
          /\ runLog = [created |-> ents, first |-> <<>>, call |-> NoRunCall]
    /\ result = <<>>
    /\ source = <<>>
    /\ heap = <<>>
    /\ call = <<>>

\* run.appendIncremental(incremental, validateAppend)
RunAppendIncremental ==
    /\ nAppends < MaxRunAppends
    /\ \E incremental \in RunIncrementals, validateAppend \in BOOLEAN :
         \E r \in {RunAppend(run, incremental, validateAppend)} :
            /\ run' = r.run
            /\ runLog' = [created |-> runLog.created,
                          first |-> IF runLog.first = <<>> /\ r.ret = "None"
                                    THEN <<entities(incremental)>> ELSE runLog.first,
                          call |-> [op |-> "appendIncremental", ret |-> r.ret,
                                    validateAppend |-> validateAppend,
                                    incremental |-> <<incremental>>, before |-> <<run>>]]
    /\ nAppends' = nAppends + 1
    /\ UNCHANGED <<heap, call, source, disk, data, stale, initial, appended, last, lastInc, threads, result>>

SpecRun == RunInit /\ [][RunAppendIncremental]_vars

\* ------------------------------------------------------ reads of a run
\* run.getIncremental(index)
RunGetIncremental ==
    /\ \E index \in (0 - MaxRunIndex)..MaxRunIndex :
         \E r \in {RunGet(run, index)} :
            result' = <<[index |-> index, ret |-> r.ret, inc |-> r.inc, before |-> run]>>
    /\ UNCHANGED <<heap, call, source, disk, data, stale, initial, appended, last, lastInc,
                   nAppends, threads, run, runLog>>

SpecRunGet ==
    RunInit /\ [][(nAppends < MaxRunGetAppends /\ RunAppendIncremental) \/ RunGetIncremental]_vars

\* ------------------------------------------------------------ extraction
\* A dataset description that a caller passes to the constructor.
CustomDatasetDesc == [Name |-> "Test dataset", BIDSVersion |-> "1.0"]

\* Incrementals built from 3-D images, with the default or with their own
\* dataset description.
ExtractIncrementals ==
    {BidsIncrementalDesc(Image3D(v, 512), m, d) :
        v \in 1..MaxVoxel, m \in InputMetadata, d \in {DEFAULT_DATASET_DESC, CustomDatasetDesc}}

ExtractAppend ==
    /\ nAppends < MaxExtractAppends
    /\ \E inc \in ExtractIncrementals : AppendCall(inc, TRUE, "none")

\* archive.getIncremental(sliceIndex, **x.entities) for the incremental x
\* that the archive has just appended.
ExtractGet ==
    /\ last.op = "appendIncremental" /\ last.ret = "True"
    /\ \E sliceIndex \in 0..MaxSlice :
         \E r \in {getIncremental(data, disk, sliceIndex, entities(lastInc[2]))} :
            /\ result' = <<[sliceIndex |-> sliceIndex, ret |-> r.ret, inc |-> r.inc]>>
            /\ last' = [last EXCEPT !.op = "getIncremental", !.ret = r.ret]
    /\ UNCHANGED <<heap, call, source, disk, data, stale, initial, appended, lastInc, nAppends, threads, run, runLog>>

SpecExtract == Init /\ [][ExtractAppend \/ ExtractGet]_vars

\* ---------------------------------------------------------------- slices
\* archive.getIncremental(sliceIndex, **entities), under failIfEmpty.  The
\* entities of the calls: those of one image, those of no image, and a
\* subject alone, which can match several images.
SliceGet ==
    /\ \E sliceIndex \in -1..(MaxSlice + 1),
          ents \in QueryEntities \cup {[subject |-> s] : s \in Subjects} :
         \E r \in {IF isEmpty(data) THEN [ret |-> "StateError", inc |-> <<>>]
                   ELSE getIncremental(data, disk, sliceIndex, ents)} :
            /\ result' = <<[sliceIndex |-> sliceIndex, ents |-> ents, ret |-> r.ret,
                            inc |-> r.inc]>>
            /\ last' = [op |-> "getIncremental", ret |-> r.ret, branch |-> "none",
                        wasEmpty |-> isEmpty(data), makePath |-> FALSE, fault |-> "none"]
    /\ UNCHANGED <<heap, call, source, disk, data, stale, initial, appended, lastInc, nAppends,
                   threads, run, runLog>>

SpecSlice == Init /\ [][QueryAppend \/ SliceGet]_vars

\* -------------------------------------------------------- missing sidecar
\* os.remove(the sidecar of an image); archive._update()
\* (testStripNoMatchingMetadata).
StripSidecar ==
    /\ ~isEmpty(data)
    /\ \E p \in DOMAIN disk.meta :
          \E s \in {updateLayout([disk |-> [disk EXCEPT !.meta = Without(@, p)], data |-> data,
                                  stale |-> stale + 1])} :
              /\ disk' = s.disk
              /\ data' = s.data
              /\ stale' = s.stale
    /\ last' = [op |-> "remove", ret |-> "None", branch |-> "none", wasEmpty |-> FALSE,
                makePath |-> FALSE, fault |-> "none"]
    /\ UNCHANGED <<heap, call, source, initial, appended, lastInc, nAppends, threads, run, runLog,
                   result>>

SpecStrip == Init /\ [][QueryAppend \/ StripSidecar \/ SliceGet]_vars

\* --------------------------------------------------------------- rebuild
\* The sidecars of the source archives: the required fields alone, or
\* with an AcquisitionTime, or with the SliceTiming that writeToArchive
\* writes, or with both.
RebuildMetadata ==
    LET required == {createImageMetadataDict(st[1], st[2], "bold", TR, TE) : st \in SubjectTasks}
        timed == required \cup {Update(m, "AcquisitionTime", 1 * Milli) : m \in required}
    IN  timed \cup {Update(m, "SliceTiming", "linspace(0.0, 1.5, 27)") : m \in timed}

\* The source datasets: one image file of one or two volumes.
RebuildSources ==
    {archiveWithImage(i, m) :
        i \in {Image3D(v, 512) : v \in 1..MaxVoxel} \cup {Image4D(v, 512) : v \in 1..MaxVoxel},
        m \in RebuildMetadata}

\* archive = BidsArchive(source); run = archive.getBidsRun(subject, task);
\* new_archive = BidsArchive(an empty directory).
RebuildInit ==
    /\ disk = EmptyDisk
    /\ data = BIDSLayout(disk)
    /\ stale = 0
    /\ initial = disk.img
    /\ appended = EmptyDict
    /\ last = NoCall
    /\ lastInc = <<>>
    /\ nAppends = 0
    /\ threads = [t \in Threads |-> Idle]
    /\ result = <<>>
    /\ heap = <<>>
    /\ call = <<>>
    /\ \E d \in RebuildSources : \E p \in DOMAIN d.img :
          /\ source = [disk |-> d, data |-> BIDSLayout(d)]
          /\ runLog = [created |-> Restrict(FileEntities(p), {"subject", "task"}),
                       first |-> <<>>, call |-> NoRunCall]
          /\ run = getBidsRun(source.data, source.disk, runLog.created).run[1]

\* new_archive.appendIncremental(pickle.loads(pickle.dumps(incremental)))
\* for the next incremental of the run; an exception ends the rebuild.
RebuildAppend ==
    /\ nAppends < numIncrementals(run)
    /\ last.ret \in {"none", "True"}
    /\ AppendCall(deserialize(serialize(run.incrementals[nAppends + 1])), TRUE, "none")

\* new_archive.getBidsRun(subject, task) after the last append.
RebuildGetRun ==
    /\ nAppends = numIncrementals(run)
    /\ last.op = "appendIncremental" /\ last.ret = "True"
    /\ \E r \in {getBidsRun(data, disk, runLog.created)} :
          /\ result' = <<[ret |-> r.ret, run |-> r.run]>>
          /\ last' = [last EXCEPT !.op = "getBidsRun", !.ret = r.ret]
    /\ UNCHANGED <<heap, call, source, disk, data, stale, initial, appended, lastInc, nAppends, threads, run,
                   runLog>>

SpecRebuild == RebuildInit /\ [][RebuildAppend \/ RebuildGetRun]_vars

\* ----------------------------------------------------- calls on objects
\* The images handed to the constructor: 3-D, 4-D of one volume and 4-D
\* of two volumes (sample4DNifti1 of validBidsI).
ObjectImages ==
    {Image3D(1, 512), [hdr |-> Header(4, 1, 512, TR), data |-> <<2>>], Image4D(1, 512)}

\* The image metadata handed to the constructor.
ObjectMetadata == Update(FixtureMetadata, "session", "01")

\* The dataset metadata handed to the constructor: None, or a dictionary.
ObjectDescs == {<<>>, <<CustomDatasetDesc>>}

\* The fields of the calls of setMetadataField: an entity, a field that
\* is no entity, and None.
SetFields == {"task", "TaskName", ""}

\* The fields of the calls of removeMetadataField: the required fields,
\* an entity and a field that is no entity.
RemoveFields == REQUIRED_IMAGE_METADATA \cup {"session", "TaskName"}

ObjectsInit ==
    /\ disk = EmptyDisk
    /\ data = BIDSLayout(disk)
    /\ stale = 0
    /\ initial = disk.img
    /\ appended = EmptyDict
    /\ last = NoCall
    /\ lastInc = <<>>
    /\ nAppends = 0
    /\ threads = [t \in Threads |-> Idle]
    /\ run = BidsRun(EmptyDict)
    /\ runLog = [created |-> EmptyDict, first |-> <<>>, call |-> NoRunCall]
    /\ result = <<>>
    /\ source = <<>>
    /\ heap = EmptyHeap
    /\ call = [n |-> 0, op |-> "none", target |-> 0, arg |-> <<>>, ret |-> "None",
               before |-> EmptyHeap]

\* The record of a call: its name, the reference it was made on, its
\* arguments, the exception raised or "None", and the heap before it.
Called(op, target, arg, ret) ==
    call' = [n |-> call.n + 1, op |-> op, target |-> target, arg |-> arg, ret |-> ret,
             before |-> heap]

ObjectFrame ==
    UNCHANGED <<disk, data, stale, initial, appended, last, lastInc, nAppends, threads, run,
                runLog, result, source>>

\* x = BidsIncremental(image, imageMetadata, datasetMetadata)
ObjConstruct ==
    /\ call.n < MaxObjectCalls
    /\ Len(heap.incs) < MaxObjects
    /\ \E image \in ObjectImages, datasetMetadata \in ObjectDescs :
          /\ InitError(image, ObjectMetadata) = "none"
          /\ heap' = NewIncremental(heap, image, ObjectMetadata, datasetMetadata)
          /\ Called("BidsIncremental", Len(heap.incs) + 1, <<image>>, "None")
    /\ ObjectFrame

\* x.setMetadataField(field, value, strict)
ObjSetField ==
    /\ call.n < MaxObjectCalls
    /\ \E ref \in 1..Len(heap.incs), field \in SetFields, strict \in BOOLEAN :
         \E r \in {setMetadataFieldStrict(heap.incs[ref], field, "rest", strict)} :
            /\ heap' = [heap EXCEPT !.incs[ref] = r.inc]
            /\ Called("setMetadataField", ref, <<field, strict>>, r.ret)
    /\ ObjectFrame

\* x.removeMetadataField(field, strict)
ObjRemoveField ==
    /\ call.n < MaxObjectCalls
    /\ \E ref \in 1..Len(heap.incs), field \in RemoveFields, strict \in BOOLEAN :
         \E r \in {removeMetadataField(heap.incs[ref], field, strict)} :
            /\ heap' = [heap EXCEPT !.incs[ref] = r.inc]
            /\ Called("removeMetadataField", ref, <<field, strict>>, r.ret)
    /\ ObjectFrame

\* x.datasetMetadata["Name"] = "renamed"
ObjSetDatasetField ==
    /\ call.n < MaxObjectCalls
    /\ \E ref \in 1..Len(heap.incs) :
          /\ heap' = setDatasetField(heap, ref, "Name", "renamed")
          /\ Called("setDatasetField", ref, <<"Name">>, "None")
    /\ ObjectFrame

\* run.appendIncremental(x, validateAppend)
ObjRunAppend ==
    /\ call.n < MaxObjectCalls
    /\ \E ref \in 1..Len(heap.incs), validateAppend \in BOOLEAN :
         \E r \in {HeapRunAppend(heap, ref, validateAppend)} :
            /\ heap' = r.heap
            /\ Called("appendIncremental", ref, <<validateAppend>>, r.ret)
    /\ ObjectFrame

\* y = pickle.loads(pickle.dumps(x))
ObjPickle ==
    /\ call.n < MaxObjectCalls
    /\ \E ref \in 1..Len(heap.incs) :
          /\ heap' = HeapPickle(heap, ref)
          /\ Called("pickle", ref, <<Len(heap.incs) + 1>>, "None")
    /\ ObjectFrame

ObjectsNext ==
    \/ ObjConstruct
    \/ ObjSetField
    \/ ObjRemoveField
    \/ ObjSetDatasetField
    \/ ObjRunAppend
    \/ ObjPickle

SpecObjects == ObjectsInit /\ [][ObjectsNext]_vars

\* -------------------------------------------------------- time units
\* The values of RepetitionTime and EchoTime handed to the constructor, in
\* thousandths: the halves 0.5, 1, 1.5, ... alone, and times 100, 1000
\* and 100000, which lie around the maximum values and 1000 times them;
\* and values just above those.
TimeValues ==
    {s * 500 * m : s \in 1..MaxHalves, m \in {1, 100, 1000, 100000}}
        \cup {c * Milli + 500 : c \in {100, 1000, 1500, 100000}}

TimeInit ==
    /\ disk = EmptyDisk
    /\ data = BIDSLayout(disk)
    /\ stale = 0
    /\ initial = disk.img
    /\ appended = EmptyDict
    /\ last = NoCall
    /\ lastInc = <<>>
    /\ nAppends = 0
    /\ threads = [t \in Threads |-> Idle]
    /\ run = BidsRun(EmptyDict)
    /\ runLog = [created |-> EmptyDict, first |-> <<>>, call |-> NoRunCall]
    /\ result = <<>>
    /\ source = <<>>
    /\ heap = <<>>
    /\ call = [op |-> "none", arg |-> EmptyDict, ret |-> "none"]

\* BidsIncremental(image, createImageMetadataDict(..., repetitionTime,
\* echoTime)): the exception raised, or the object.
TimeConstruct ==
    /\ \E repetitionTime \in TimeValues, echoTime \in TimeValues :
         \E m \in {createImageMetadataDict("01", "faces", "bold", repetitionTime, echoTime)} :
            /\ call' = [op |-> "BidsIncremental", arg |-> m,
                        ret |-> InitError(Image3D(1, 512), m)]
            /\ result' = IF InitError(Image3D(1, 512), m) = "none"
                         THEN <<BidsIncremental(Image3D(1, 512), m)>> ELSE <<>>
    /\ UNCHANGED <<disk, data, stale, initial, appended, last, lastInc, nAppends, threads, run,
                   runLog, source, heap>>

SpecTime == TimeInit /\ [][TimeConstruct]_vars

\* ------------------------------------------------------- ProtocolName
\* The tokens that ProtocolName holds: any of sub-, task- and ses-, each
\* with one of two values.
ProtocolNames ==
    {f \in UNION {[S -> Subjects \cup Tasks] : S \in SUBSET {"subject", "task", "session"}} :
        \A k \in DOMAIN f : f[k] \in (IF k = "task" THEN Tasks ELSE Subjects)}

\* The dictionaries handed to the constructor: the required fields, with
\* or without a session, and a ProtocolName.
ProtocolMetadata ==
    LET required == {createImageMetadataDict(s, t, "bold", TR, TE) : s \in Subjects, t \in Tasks}
        withSession == required \cup {Update(m, "session", "01") : m \in required}
    IN  {Update(m, "ProtocolName", p) : m \in withSession, p \in ProtocolNames}

\* BidsIncremental(image, imageMetadata) for a dictionary with a
\* ProtocolName, from the state that TimeInit describes.
ProtocolConstruct ==
    /\ \E m \in ProtocolMetadata :
          /\ call' = [op |-> "BidsIncremental", arg |-> m, ret |-> InitError(Image3D(1, 512), m)]
          /\ result' = IF InitError(Image3D(1, 512), m) = "none"
                       THEN <<BidsIncremental(Image3D(1, 512), m)>> ELSE <<>>
    /\ UNCHANGED <<disk, data, stale, initial, appended, last, lastInc, nAppends, threads, run,
                   runLog, source, heap>>

SpecProtocol == TimeInit /\ [][ProtocolConstruct]_vars

\* ------------------------------------------------ metadata comparison
\* The dictionaries compared: a field that must match, the two fields that
\* must differ and a field of neither list, each left out or with one of
\* the values 1..MaxMetadataValue.
ComparedMetadata ==
    UNION {[S -> 1..MaxMetadataValue] :
              S \in SUBSET {"Manufacturer", "AcquisitionTime", "AcquisitionNumber", "SliceTiming"}}

MetadataInit ==
    /\ disk = EmptyDisk
    /\ data = BIDSLayout(disk)
    /\ stale = 0
    /\ initial = disk.img
    /\ appended = EmptyDict
    /\ last = NoCall
    /\ lastInc = <<>>
    /\ nAppends = 0
    /\ threads = [t \in Threads |-> Idle]
    /\ run = BidsRun(EmptyDict)
    /\ runLog = [created |-> EmptyDict, first |-> <<>>, call |-> NoRunCall]
    /\ result = <<>>
    /\ source = <<>>
    /\ heap = <<>>
    /\ \E meta1 \in ComparedMetadata, meta2 \in ComparedMetadata :
          call = [op |-> "none", arg |-> <<meta1, meta2>>, ret |-> FALSE]

\* BidsArchive._metadataAppendCompatible(meta1, meta2)
MetadataCompare ==
    /\ call.op = "none"
    /\ call' = [op |-> "_metadataAppendCompatible", arg |-> call.arg,
                ret |-> metadataAppendCompatible(call.arg[1], call.arg[2])]
    /\ UNCHANGED <<disk, data, stale, initial, appended, last, lastInc, nAppends, threads, run,
                   runLog, result, source, heap>>

SpecMetadata == MetadataInit /\ [][MetadataCompare]_vars

\* ---------------------------------------------------- header comparison
\* The images compared: 2-D, 3-D and 4-D, with a first extent of
\* 1..MaxExtent; their must-match fields hold one of the two datatypes of
\* the tests or one of two values (of scl_slope, say) that differ by
\* about one part in 100000.
ComparedImages ==
    {[hdr |-> [mf |-> mf,
               dim |-> <<n, x, 2, IF n > 2 THEN 2 ELSE 1, IF n > 3 THEN 2 ELSE 1>>,
               pixdim |-> <<1, 1, 1, 1, IF n > 3 THEN TR ELSE 0>>],
      data |-> <<1>>] : n \in 2..4, x \in 1..MaxExtent, mf \in {32, 512, 199999, 200001}}

ImagesInit ==
    /\ disk = EmptyDisk
    /\ data = BIDSLayout(disk)
    /\ stale = 0
    /\ initial = disk.img
    /\ appended = EmptyDict
    /\ last = NoCall
    /\ lastInc = <<>>
    /\ nAppends = 0
    /\ threads = [t \in Threads |-> Idle]
    /\ run = BidsRun(EmptyDict)
    /\ runLog = [created |-> EmptyDict, first |-> <<>>, call |-> NoRunCall]
    /\ result = <<>>
    /\ source = <<>>
    /\ heap = <<>>
    /\ \E img1 \in ComparedImages, img2 \in ComparedImages :
          call = [op |-> "none", arg |-> <<img1, img2>>, ret |-> FALSE]

\* BidsArchive._imagesAppendCompatible(img1, img2)
ImagesCompare ==
    /\ call.op = "none"
    /\ call' = [op |-> "_imagesAppendCompatible", arg |-> call.arg,
                ret |-> imagesAppendCompatible(call.arg[1], call.arg[2])]
    /\ UNCHANGED <<disk, data, stale, initial, appended, last, lastInc, nAppends, threads, run,
                   runLog, result, source, heap>>

SpecImages == ImagesInit /\ [][ImagesCompare]_vars

\* --------------------------------------------------------- path identity
\* The incrementals whose paths are compared, with metadata with and
\* without a session, with the datatype left out, func or anat (the two
\* that dataType() names), and two acquisition times.
PathIncrementals ==
    LET base == {Update(createImageMetadataDict("01", "faces", "bold", TR, TE),
                        "AcquisitionTime", a) : a \in {1 * Milli, 3 * Milli}}
        withSession == base \cup {Update(m, "session", "01") : m \in base}
        metadata == withSession \cup {Update(m, "datatype", dt) : m \in withSession,
                                                                   dt \in {"func", "anat"}}
    IN  {BidsIncremental(Image3D(v, 512), m) : v \in 1..MaxVoxel, m \in metadata}

\* archive.appendIncremental(incremental) with the default makePath.
PathAppend == \E inc \in PathIncrementals : AppendCall(inc, TRUE, "none")

SpecPath == Init /\ [][PathAppend]_vars

\* ------------------------------------------------------------ properties
Succeeded == last.op = "appendIncremental" /\ last.ret = "True"

ImagePaths == (DOMAIN disk.img) \cup (DOMAIN initial) \cup (DOMAIN appended)

\* C1: the volumes of every image file are the volumes it had when the
\* archive was opened followed by the volumes of the appends to its path
\* that returned True, in the order of those appends.
C1_AppendOrder ==
    \A p \in ImagePaths : VolumesOf(disk.img, p) = VolumesOf(initial, p) \o AppendedTo(appended, p)

\* Two appends to one path, which no image had at first, have succeeded.
C1_Witness ==
    /\ Succeeded /\ last.branch = "existing"
    /\ LET p == imageFilePath(lastInc[1])
       IN  /\ p \notin DOMAIN initial
           /\ Len(AppendedTo(appended, p)) > Len(lastInc[1].image.data)

\* The last n elements of the sequence s.
Trailing(s, n) == SubSeq(s, Len(s) - n + 1, Len(s))

\* C2: after appendIncremental(x) returned True, getImages(**x.entities)
\* returns at least one image, the image at x's path among them, and the
\* trailing volumes of that image are the volumes of x.
C2_AppendVisible ==
    Succeeded =>
        LET x == lastInc[1]
            images == getImages(data, entities(x), FALSE)
        IN  /\ data.valid
            /\ imageFilePath(x) \in images
            /\ imageFilePath(x) \in DOMAIN disk.img
            /\ Len(disk.img[imageFilePath(x)].data) >= Len(x.image.data)
            /\ Trailing(disk.img[imageFilePath(x)].data, Len(x.image.data)) = x.image.data

\* An append created a second image in a directory the archive had.
C2_Witness ==
    /\ Succeeded /\ last.branch = "new" /\ ~last.makePath
    /\ Cardinality(DOMAIN disk.img) >= 2

\* C3: an appendIncremental that does not return True leaves the image
\* files, the sidecars, the directories and the layout handle as they were
\* before the call.
C3_AllOrNothing ==
    [][(last'.op = "appendIncremental" /\ last'.ret # "True")
          => (disk' = disk /\ data' = data)]_vars

\* C4: when the appendIncremental calls of two threads for one image path
\* have both returned True, the image file holds the volumes it had before
\* followed by the volumes of both calls, in one of the two orders.
C4_NoLostUpdate ==
    \A t, u \in Threads :
        (/\ t # u
         /\ threads[t].pc = "done" /\ threads[t].ret = "True"
         /\ threads[u].pc = "done" /\ threads[u].ret = "True"
         /\ imageFilePath(threads[t].inc[1]) = imageFilePath(threads[u].inc[1]))
        => LET p == imageFilePath(threads[t].inc[1])
               a == threads[t].inc[1].image.data
               b == threads[u].inc[1].image.data
           IN  VolumesOf(disk.img, p) \in {VolumesOf(initial, p) \o a \o b,
                                          VolumesOf(initial, p) \o b \o a}

C12_MismatchIsValidationError ==
    [][(/\ last'.op = "appendIncremental" /\ nAppends' = nAppends + 1
        /\ last'.branch = "existing"
        /\ LET x == lastInc'[1]
               p == imageFilePath(x)
           IN  \/ ~imagesAppendCompatible(x.image, disk.img[p])
               \/ ~metadataAppendCompatible(imgMetadata(x), LayoutMetadata(data, p)))
          => (last'.ret = "ValidationError" /\ disk' = disk /\ data' = data)]_vars

\* The last call extracted, at sliceIndex, the incremental that the call
\* before it had appended as the n-th append to an archive that was empty.
ExtractedAfter(n, sliceIndex) ==
    /\ last.op = "getIncremental" /\ nAppends = n /\ initial = EmptyDict
    /\ result[1].sliceIndex = sliceIndex

\* C13 as claimed: after the append of x, built from a 3-D image, to an
\* archive that was empty, getIncremental(0, **x.entities) returns an
\* incremental equal to x, the dataset metadata included.
C13_AppendExtractInverse ==
    ExtractedAfter(1, 0)
        => (result[1].ret = "ok" /\ IncrementalEq(result[1].inc[1], lastInc[2]))

\* C13 amended: the same for every x that has the default dataset
\* description, x being the object as the append left it.
C13_InverseForDefaultDescription ==
    (ExtractedAfter(1, 0) /\ lastInc[2].datasetMetadata = DEFAULT_DATASET_DESC)
        => (result[1].ret = "ok" /\ IncrementalEq(result[1].inc[1], lastInc[2]))

C13_Witness ==
    /\ ExtractedAfter(1, 0) /\ lastInc[2].datasetMetadata = DEFAULT_DATASET_DESC
    /\ result[1].ret = "ok"
    /\ Has(result[1].inc[1].imgMetadata, "SliceTiming")

\* y, the incremental of the second append, has the metadata that the
\* first append wrote with AcquisitionTime incremented by RepetitionTime.
DerivedFromFirst(y) ==
    /\ SidecarOf(imageFilePath(y)) \in DOMAIN disk.meta
    /\ LET written == disk.meta[SidecarOf(imageFilePath(y))]
       IN  /\ Has(written, "AcquisitionTime")
           /\ y.imgMetadata =
                 Update(Without(written, "SliceTiming"), "AcquisitionTime",
                        written["AcquisitionTime"] + written["RepetitionTime"])

\* C14 as claimed: after the appends of x and of y to an archive that was
\* empty, the image has 2 volumes and getIncremental(1, **y.entities)
\* returns an incremental equal to y, its image metadata included.
C14_SecondExtractEqualsY ==
    (ExtractedAfter(2, 1) /\ last.branch = "existing" /\ DerivedFromFirst(lastInc[2]))
        => /\ Len(disk.img[imageFilePath(lastInc[2])].data) = 2
           /\ result[1].ret = "ok"
           /\ IncrementalEq(result[1].inc[1], lastInc[2])

\* C14 amended: the image has 2 volumes and the incremental returned has
\* the image of y and the AcquisitionTime of the sidecar, which the first
\* append wrote: that of x, not of y.
C14_SecondExtractHasImageOfY ==
    (ExtractedAfter(2, 1) /\ last.branch = "existing" /\ DerivedFromFirst(lastInc[2]))
        => LET y == lastInc[2]
               got == result[1].inc[1]
               written == disk.meta[SidecarOf(imageFilePath(y))]
           IN  /\ Len(disk.img[imageFilePath(y)].data) = 2
               /\ result[1].ret = "ok"
               /\ got.image = y.image
               /\ got.imgMetadata["AcquisitionTime"] = written["AcquisitionTime"]
               /\ got.imgMetadata["AcquisitionTime"]
                     = y.imgMetadata["AcquisitionTime"] - y.imgMetadata["RepetitionTime"]

C14_Witness ==
    /\ ExtractedAfter(2, 1) /\ last.branch = "existing" /\ DerivedFromFirst(lastInc[2])
    /\ result[1].ret = "ok"
    /\ result[1].inc[1].image.data # <<disk.img[imageFilePath(lastInc[2])].data[1]>>

\* C15: when every incremental of a run of a source archive is serialized,
\* deserialized and appended in order to a new empty archive, every append
\* succeeds and getBidsRun of the new archive returns a run equal to
\* getBidsRun of the source archive for the same entities.
C15_StreamingRebuild ==
    /\ last.op = "appendIncremental" => last.ret = "True"
    /\ last.op = "getBidsRun" =>
          \E s \in {getBidsRun(source.data, source.disk, runLog.created)} :
              /\ result[1].ret = "ok" /\ s.ret = "ok"
              /\ RunEq(s.run[1], result[1].run[1])

\* The rebuilt run has the frames of the source run, in order.
RebuildKeepsImages ==
    last.op = "getBidsRun" =>
        /\ result[1].ret = "ok"
        /\ numIncrementals(result[1].run[1]) = numIncrementals(run)
        /\ \A i \in 1..numIncrementals(run) :
              result[1].run[1].incrementals[i].image = run.incrementals[i].image

C18_SingleVolume ==
    call.op = "BidsIncremental" =>
        /\ Len(imageDimensions(Deref(heap, call.target))) = 4
        /\ imageDimensions(Deref(heap, call.target))[4] = 1

\* C18 (amended): every incremental that the constructor accepts has four
\* image dimensions; the last of them is 1 when the image is 3-D and the
\* number of volumes of the image when it is 4-D.
C18_DimensionsOfConstructed ==
    call.op = "BidsIncremental" =>
        LET image == call.arg[1]
            dims == imageDimensions(Deref(heap, call.target))
        IN  /\ Len(dims) = 4
            /\ dims[4] = IF Dim(image.hdr, 0) = 3 THEN 1 ELSE Dim(image.hdr, 4)

\* Incrementals constructed from a 3-D image and from a 4-D image of two
\* volumes.
C18_Witness ==
    /\ call.op = "BidsIncremental"
    /\ Dim(call.arg[1].hdr, 0) = 3
    /\ \E ref \in 1..Len(heap.incs) : imageDimensions(Deref(heap, ref))[4] = 2

\* C19: after construction and any calls of setMetadataField and
\* removeMetadataField the metadata of an incremental has the keys
\* subject, task, suffix, RepetitionTime and EchoTime; removeMetadataField
\* of one of these keys raises and leaves the metadata as it was.
C19_RequiredFields ==
    /\ \A ref \in 1..Len(heap.incs) :
          REQUIRED_IMAGE_METADATA \subseteq DOMAIN heap.incs[ref].imgMetadata
    /\ (call.op = "removeMetadataField" /\ call.arg[1] \in REQUIRED_IMAGE_METADATA) =>
          /\ call.ret = "ValueError"
          /\ heap.incs[call.target].imgMetadata = call.before.incs[call.target].imgMetadata

\* removeMetadataField of a required field as the third call, after a
\* call that changed the metadata of the same incremental.
C19_Witness ==
    /\ call.op = "removeMetadataField"
    /\ call.arg[1] = "EchoTime"
    /\ call.n = 3
    /\ call.before.incs[call.target].imgMetadata["task"] = "rest"

\* C20: a call on one incremental or on the run (setMetadataField,
\* removeMetadataField, a change of its dataset description, an append to
\* the run, a round trip) leaves every other incremental as it was, and
\* only an append to the run changes what the run holds.
C20_NoSharedState ==
    [][/\ \A o \in 1..Len(heap.incs) :
             o # call'.target => Deref(heap', o) = Deref(heap, o)
       /\ call'.op # "appendIncremental" => RunOf(heap') = RunOf(heap)]_vars

\* The two ways the heap shares state: a change of the dataset description
\* of one incremental shows in another one, and a change of an incremental
\* shows in the run that holds it.
SharedDescription ==
    /\ call.op = "setDatasetField"
    /\ \E o \in 1..Len(call.before.incs) :
          o # call.target /\ Deref(heap, o) # Deref(call.before, o)

SharedElement ==
    /\ call.op = "setMetadataField"
    /\ RunOf(heap) # RunOf(call.before)

C22_MissingMetadata ==
    (last.op = "getIncremental" /\ ~last.wasEmpty) =>
        LET r == result[1]
            matching == getImages(data, r.ents, FALSE)
            candidate == CHOOSE c \in matching : TRUE
        IN  (/\ Cardinality(matching) = 1
             /\ r.sliceIndex >= 0 /\ r.sliceIndex < Len(disk.img[candidate].data)
             /\ missingImageMetadata(LayoutMetadata(data, candidate)) # {})
                => r.ret = "MissingMetadataError"

\* C23: for a run of n incrementals getIncremental(i) returns the i-th
\* incremental for 0 <= i < n; for i >= n it raises IndexError, no other
\* exception, and leaves the run as it was.
C23_GetBounds ==
    result # <<>> =>
        LET r == result[1]
            n == numIncrementals(r.before)
        IN  /\ (r.index >= 0 /\ r.index < n) =>
                  r.ret = "ok" /\ r.inc[1] = r.before.incrementals[r.index + 1]
            /\ r.index >= n => r.ret = "IndexError" /\ run = r.before

\* The elements that a successful append of x added to a run of n
\* incrementals are the volumes of x in order, one each, with the header
\* of x for one volume.
SplitKeepsImages ==
    (runLog.call.op = "appendIncremental" /\ runLog.call.ret = "None") =>
        LET x == runLog.call.incremental[1]
            n == numIncrementals(runLog.call.before[1])
            k == imageDimensions(x)[4]
        IN  /\ numIncrementals(run) = n + k
            /\ \A i \in 1..n : run.incrementals[i] = runLog.call.before[1].incrementals[i]
            /\ \A j \in 1..k :
                  /\ run.incrementals[n + j].image.data = <<x.image.data[j]>>
                  /\ run.incrementals[n + j].image.hdr =
                        [x.image.hdr EXCEPT !.dim = <<4, Dim(x.image.hdr, 1), Dim(x.image.hdr, 2),
                                                      Dim(x.image.hdr, 3), 1>>]

\* C24: a successful append of x, of k volumes, to a run of n incrementals
\* leaves n + k incrementals: the first n as they were, then one
\* incremental for each volume of x in order, each with the metadata and
\* the header of x.
C24_SplitAppend ==
    /\ SplitKeepsImages
    /\ (runLog.call.op = "appendIncremental" /\ runLog.call.ret = "None") =>
          LET x == runLog.call.incremental[1]
              n == numIncrementals(runLog.call.before[1])
          IN  \A j \in 1..imageDimensions(x)[4] :
                  run.incrementals[n + j].imgMetadata = x.imgMetadata

\* The value that C25 has the constructor store for the input v of a time
\* field, in <<>>; <<>> alone when construction is to fail, and -1 for a
\* quotient v/1000 that no stored value of the code can equal.
NormalizedTime(field, v) ==
    IF v <= fieldToMaxValue(field) THEN <<v>>
    ELSE IF v <= 1000 * fieldToMaxValue(field)
    THEN IF v % 1000 = 0 THEN <<v \div 1000>> ELSE <<0 - 1>>
    ELSE <<>>

\* C25: for RepetitionTime (maximum 100) and EchoTime (maximum 1) and
\* every input v, the constructor stores v when v is at most the maximum,
\* v/1000 exactly when v is above it and v/1000 is at most the maximum,
\* and raises ValidationError otherwise; so after construction
\* RepetitionTime <= 100 and EchoTime <= 1.
C25_TimeNormalization ==
    call.op = "BidsIncremental" =>
        LET fields == {"RepetitionTime", "EchoTime"}
        IN  IF \E f \in fields : NormalizedTime(f, call.arg[f]) = <<>>
            THEN call.ret = "ValidationError"
            ELSE /\ call.ret = "none"
                 /\ \A f \in fields :
                       /\ <<result[1].imgMetadata[f]>> = NormalizedTime(f, call.arg[f])
                       /\ result[1].imgMetadata[f] <= fieldToMaxValue(f)

\* C25 for inputs that are whole numbers: the same three cases.
TimeNormalizationOfIntegers ==
    (call.op = "BidsIncremental" /\ \A f \in {"RepetitionTime", "EchoTime"} : IntOf(call.arg[f]) = call.arg[f])
        => C25_TimeNormalization

\* C26: the constructor merges the tokens of ProtocolName under the
\* dictionary of the caller: for a key of both, the incremental stores the
\* value of the caller; the tokens only fill the keys the caller left out.
C26_CallerValuesWin ==
    (call.op = "BidsIncremental" /\ call.ret = "none" /\ Has(call.arg, "ProtocolName")) =>
        LET tokens == metadataFromProtocolName(call.arg["ProtocolName"])
            stored == result[1].imgMetadata
        IN  \A k \in DOMAIN tokens :
                stored[k] = IF Has(call.arg, k) THEN call.arg[k] ELSE tokens[k]

\* The tokens fill the keys that the caller left out.
TokensFillMissingKeys ==
    (call.op = "BidsIncremental" /\ call.ret = "none" /\ Has(call.arg, "ProtocolName")) =>
        \A k \in DOMAIN metadataFromProtocolName(call.arg["ProtocolName"]) :
            ~Has(call.arg, k) =>
                result[1].imgMetadata[k] = metadataFromProtocolName(call.arg["ProtocolName"])[k]

C28_ReflexiveSymmetric ==
    call.op = "_imagesAppendCompatible" =>
        /\ call.arg[1] = call.arg[2] => call.ret
        /\ call.ret = imagesAppendCompatible(call.arg[2], call.arg[1])

\* What holds of the code: the comparison is reflexive, and symmetric for
\* every pair of images with equal must-match fields, whatever their
\* dimensions.
SymmetricInDimensions ==
    call.op = "_imagesAppendCompatible" =>
        /\ call.arg[1] = call.arg[2] => call.ret
        /\ call.arg[1].hdr.mf = call.arg[2].hdr.mf =>
              call.ret = imagesAppendCompatible(call.arg[2], call.arg[1])

\* C29: appendIncremental leaves the incremental it is given as it was:
\* on every branch (empty archive, existing image, new image, refusal) the
\* incremental after the call equals the incremental before it.
C29_IncrementalUnchanged ==
    (last.op = "appendIncremental" /\ lastInc # <<>>) => lastInc[2] = lastInc[1]

\* What holds of the code: the incremental is unchanged on the branches of
\* a non-empty archive, and on the empty branch only its image metadata
\* changes, by the SliceTiming that writeToArchive stores.
UnchangedButSliceTiming ==
    (last.op = "appendIncremental" /\ lastInc # <<>>) =>
        /\ last.branch # "empty" => lastInc[2] = lastInc[1]
        /\ lastInc[2].image = lastInc[1].image
        /\ lastInc[2].datasetMetadata = lastInc[1].datasetMetadata
        /\ Without(lastInc[2].imgMetadata, "SliceTiming")
              = Without(lastInc[1].imgMetadata, "SliceTiming")

\* The first append into an empty archive put the image and the sidecar of
\* x at imageFilePath(x) and metadataFilePath(x), so that an append of any
\* incremental y with the entities and datatype of x takes the
\* existing-image branch and, when it is accepted, concatenates.
FirstWriteAtLookupPath(x) ==
    LET st == [disk |-> disk, data |-> data, stale |-> stale]
    IN  /\ imageFilePath(x) \in DOMAIN disk.img
        /\ disk.img[imageFilePath(x)] = x.image
        /\ metadataFilePath(x) \in DOMAIN disk.meta
        /\ \A y \in PathIncrementals :
              (entities(y) = entities(x) /\ y.imgMetadata["datatype"] = x.imgMetadata["datatype"])
                 => LET r == appendIncremental(y, TRUE, st, "none")
                    IN  /\ r.branch = "existing"
                        /\ r.ret = "True" =>
                              r.st.disk.img[imageFilePath(x)].data = x.image.data \o y.image.data

\* C30: for every valid incremental x, of any datatype and with or without
\* a session, the image and the sidecar that appendIncremental writes into
\* an empty archive are at imageFilePath(x) and metadataFilePath(x), so a
\* second append with the same entities takes the existing-image branch
\* and concatenates.
C30_PathIdentity ==
    (last.op = "appendIncremental" /\ last.branch = "empty" /\ last.ret = "True") =>
        FirstWriteAtLookupPath(lastInc[1])

\* What holds of the code: the same for every incremental of datatype
\* func, with or without a session.
PathIdentityForFunc ==
    (/\ last.op = "appendIncremental" /\ last.branch = "empty" /\ last.ret = "True"
     /\ lastInc[1].imgMetadata["datatype"] = "func") =>
        FirstWriteAtLookupPath(lastInc[1])

C6_SidecarInvariant ==
    /\ \A p \in DOMAIN disk.img : SidecarOf(p) \in DOMAIN disk.meta
    /\ \A q \in DOMAIN disk.meta : [q EXCEPT !.name.ext = ".nii"] \in DOMAIN disk.img

\* Appends have made an archive of three images.
C6_Witness ==
    /\ Succeeded /\ last.branch = "new"
    /\ Cardinality(DOMAIN disk.img) = 3

\* C7: every incremental of a run that is not empty has the entities of
\* the run, whatever appendIncremental calls were made (validateAppend
\* True or False, the run created with or without entities).
C7_RunEntitiesInvariant ==
    \A i \in 1..Len(run.incrementals) : entities(run.incrementals[i]) = getRunEntities(run)

\* C8: once an incremental has been appended to a run created without
\* entities, the run's entities are the entities that the first appended
\* incremental had when it was appended, after every later call too.
C8_EntitiesFromFirstAppend ==
    (runLog.created = EmptyDict /\ runLog.first # <<>>)
        => getRunEntities(run) = runLog.first[1]

\* A later append, made without validation, of an incremental of other
\* entities than the first.
C8_Witness ==
    /\ runLog.created = EmptyDict /\ runLog.first # <<>>
    /\ runLog.call.ret = "None" /\ ~runLog.call.validateAppend
    /\ numIncrementals(run) >= 2
    /\ entities(runLog.call.incremental[1]) # runLog.first[1]

\* The last call was appendIncremental(x, validateAppend=True) on a run
\* that held incrementals.
ValidatedAppendToNonEmpty ==
    /\ runLog.call.op = "appendIncremental" /\ runLog.call.validateAppend
    /\ numIncrementals(runLog.call.before[1]) > 0

\* C9: appendIncremental(x, validateAppend=True) on a run that is not
\* empty, with x of other entities than the run or an image whose
\* must-match header fields differ from the last incremental's, raises
\* MetadataMismatchError and leaves the incrementals and the entities of
\* the run as they were.
C9_MismatchRejected ==
    ValidatedAppendToNonEmpty =>
        LET x == runLog.call.incremental[1]
            before == runLog.call.before[1]
            lastImage == before.incrementals[Len(before.incrementals)].image
        IN  (entities(x) # before.entities \/ x.image.hdr.mf # lastImage.hdr.mf)
                => (runLog.call.ret = "MetadataMismatchError" /\ run = before)

\* An incremental of the run's entities was refused for its header.
C9_Witness ==
    /\ ValidatedAppendToNonEmpty
    /\ entities(runLog.call.incremental[1]) = runLog.call.before[1].entities
    /\ runLog.call.ret = "MetadataMismatchError"

\* C10: a query of an empty archive raises StateError.
C10_EmptyQueriesFail ==
    (last.op \in QueryOps /\ last.wasEmpty) => last.ret = "StateError"

====
